---- MODULE Spec2Model ----
(***************************************************************************)
(* Network Latency Tester (PROJECT_NETWORK_LAT_TEST/PROJECT_CODE.py).      *)
(*                                                                         *)
(* The module models the DataStorage record store, the LatencyTestRecord   *)
(* value it holds, the latency simulation and the main_menu loop.          *)
(*                                                                         *)
(*   Spec      the store driven by an arbitrary caller: any sequence of    *)
(*             add_record, get_record, modify_record, remove_record and    *)
(*             display_all calls with any index and any record.            *)
(*   MenuSpec  main_menu: one action per stretch of code between two       *)
(*             input() calls.                                              *)
(*                                                                         *)
(* A Python list is a TLA+ sequence; the Python index i is position i+1.   *)
(* A Python str is a TLA+ string, except text typed at a prompt that the   *)
(* code compares or parses (the menu choice, the index, the latency),      *)
(* which is a sequence of one-character strings so that int() can be       *)
(* modelled character by character.  Every input() call returns a line of  *)
(* text: end of input and interrupts are outside the model.                *)
(***************************************************************************)
EXTENDS Integers, Sequences, FiniteSets, TLC

VARIABLES
    records,    \* DataStorage.records
    prev,       \* history: DataStorage.records before the last step
    call,       \* history: the DataStorage method the last step called
    out,        \* the lines the last step printed
    pc,         \* main_menu: the input() call the loop is waiting at
    typed,      \* history: the text the last input() call returned
    choice,     \* main_menu local `choice`
    idx,        \* main_menu local `idx`
    source      \* main_menu local `source`

vars == <<records, prev, call, out, pc, typed, choice, idx, source>>

-----------------------------------------------------------------------------
(* Bounds of the model                                                     *)

\* the store holds at most MaxRecords records
MaxRecords == 3
\* main_menu is followed while its store holds at most MaxMenuRecords records
MaxMenuRecords == 2
\* datetime.now() returns one of the instants 1..MaxTime
MaxTime == 1

-----------------------------------------------------------------------------
(* colorama escape sequences (ESC stands for the byte 0x1b)                *)

Fore_RED == "ESC[31m"
Fore_GREEN == "ESC[32m"
Fore_YELLOW == "ESC[33m"
Fore_MAGENTA == "ESC[35m"
Fore_CYAN == "ESC[36m"
Style_RESET_ALL == "ESC[0m"

-----------------------------------------------------------------------------
(* Python values                                                           *)

\* the default of the test_time parameter; the only falsy test_time
None == 0
Times == 1..MaxTime

\* a value of dynamic type: a str or a LatencyTestRecord
PyStr(s) == [kind |-> "str", value |-> s]
PyRecord(r) == [kind |-> "LatencyTestRecord", value |-> r]

\* the str of a typed text
RECURSIVE Str(_)
Str(t) == IF t = <<>> THEN "" ELSE Head(t) \o Str(Tail(t))

\* a == b: values of different types are never equal
PyEq(a, b) == a.kind = b.kind /\ a.value = b.value

\* a list index counts from the end when it is negative
ListIndex(l, i) == IF i < 0 THEN i + Len(l) ELSE i
\* list.append(x)
ListAppend(l, x) == Append(l, x)
\* l[i], for -len(l) <= i < len(l)
ListGetItem(l, i) == l[ListIndex(l, i) + 1]
\* l[i] = x, for -len(l) <= i < len(l)
ListSetItem(l, i, x) == [l EXCEPT ![ListIndex(l, i) + 1] = x]
\* l.pop(i), for -len(l) <= i < len(l)
ListPop(l, i) ==
    SubSeq(l, 1, ListIndex(l, i)) \o SubSeq(l, ListIndex(l, i) + 2, Len(l))
\* enumerate(l): the pairs (index, element) in list order
Enumerate(l) == [i \in 1..Len(l) |-> <<i - 1, l[i]>>]

-----------------------------------------------------------------------------
(* LatencyTestRecord                                                       *)

\* LatencyTestRecord.__init__; now is what datetime.now() returns
LatencyTestRecord(src, latency, test_time, now) ==
    [source |-> src, latency |-> latency,
     test_time |-> IF test_time # None THEN test_time ELSE now]

\* str(datetime): the instants are numbered
DatetimeStr(t) == "T" \o ToString(t)

\* LatencyTestRecord.__str__
RecordStr(r) ==
    Fore_CYAN \o "Latency for " \o Fore_YELLOW \o r.source \o Fore_CYAN \o ": "
    \o Fore_GREEN \o ToString(r.latency) \o "ms" \o Fore_CYAN \o ", tested at "
    \o Fore_MAGENTA \o DatetimeStr(r.test_time) \o Style_RESET_ALL

-----------------------------------------------------------------------------
(* int(text)                                                               *)

IsSpace(c) == c = " "
IsDigit(c) == c \in {"0", "1", "2", "3", "4", "5", "6", "7", "8", "9"}
DigitValue(c) ==
    CASE c = "0" -> 0 [] c = "1" -> 1 [] c = "2" -> 2 [] c = "3" -> 3
      [] c = "4" -> 4 [] c = "5" -> 5 [] c = "6" -> 6 [] c = "7" -> 7
      [] c = "8" -> 8 [] c = "9" -> 9

RECURSIVE LStrip(_)
LStrip(t) == IF t # <<>> /\ IsSpace(Head(t)) THEN LStrip(Tail(t)) ELSE t
RECURSIVE RStrip(_)
RStrip(t) ==
    IF t # <<>> /\ IsSpace(t[Len(t)]) THEN RStrip(SubSeq(t, 1, Len(t) - 1)) ELSE t

\* the digits of a literal: digits, with single underscores between digits
IsDigitString(t) ==
    /\ t # <<>>
    /\ \A i \in 1..Len(t) : IsDigit(t[i]) \/ t[i] = "_"
    /\ IsDigit(t[1]) /\ IsDigit(t[Len(t)])
    /\ \A i \in 1..(Len(t) - 1) : ~(t[i] = "_" /\ t[i + 1] = "_")

RECURSIVE DigitsValue(_, _)
DigitsValue(t, acc) ==
    IF t = <<>> THEN acc
    ELSE IF Head(t) = "_" THEN DigitsValue(Tail(t), acc)
    ELSE DigitsValue(Tail(t), 10 * acc + DigitValue(Head(t)))

\* int(text): ok is FALSE where int raises ValueError
ParseInt(text) ==
    LET t == RStrip(LStrip(text))
        signed == t # <<>> /\ Head(t) \in {"+", "-"}
        body == IF signed THEN Tail(t) ELSE t
    IN  IF IsDigitString(body)
        THEN [ok |-> TRUE,
              value |-> IF signed /\ Head(t) = "-"
                        THEN 0 - DigitsValue(body, 0) ELSE DigitsValue(body, 0)]
        ELSE [ok |-> FALSE, value |-> None]

-----------------------------------------------------------------------------
(* DataStorage                                                             *)

\* variant: the record is put in front, so every stored record moves up
add_record_in_front(recs, record) == <<record>> \o recs

\* variant: a record equal to a stored one is not added again
add_record_unique(recs, record) ==
    IF \E i \in 1..Len(recs) : recs[i] = record THEN recs
    ELSE ListAppend(recs, record)

\* DataStorage.add_record: the list after the call (the method returns None)
add_record(recs, record) == ListAppend(recs, record)

\* DataStorage.get_record: the value returned
get_record(recs, i) ==
    IF 0 <= i /\ i < Len(recs)
    THEN PyRecord(ListGetItem(recs, i))
    ELSE PyStr(Fore_RED \o "Record not found" \o Style_RESET_ALL)

\* variant: the slot written is one below the index (0 wraps to the last)
modify_record_slot_below(recs, i, new_record) ==
    IF 0 <= i /\ i < Len(recs)
    THEN [records |-> ListSetItem(recs, i - 1, new_record), ret |-> TRUE]
    ELSE [records |-> recs, ret |-> FALSE]

\* variant: no lower bound check, a negative index counts from the end
modify_record_no_lower_bound(recs, i, new_record) ==
    IF 0 - Len(recs) <= i /\ i < Len(recs)
    THEN [records |-> ListSetItem(recs, i, new_record), ret |-> TRUE]
    ELSE [records |-> recs, ret |-> FALSE]

\* DataStorage.modify_record: the list after the call and the value returned
modify_record(recs, i, new_record) ==
    IF 0 <= i /\ i < Len(recs)
    THEN [records |-> ListSetItem(recs, i, new_record), ret |-> TRUE]
    ELSE [records |-> recs, ret |-> FALSE]

\* variant: pop() without the index removes the last record
remove_record_pop_last(recs, i) ==
    IF 0 <= i /\ i < Len(recs)
    THEN [records |-> ListPop(recs, 0 - 1), ret |-> TRUE]
    ELSE [records |-> recs, ret |-> FALSE]

\* variant: no lower bound check, a negative index counts from the end
remove_record_no_lower_bound(recs, i) ==
    IF 0 - Len(recs) <= i /\ i < Len(recs)
    THEN [records |-> ListPop(recs, i), ret |-> TRUE]
    ELSE [records |-> recs, ret |-> FALSE]

\* DataStorage.remove_record: the list after the call and the value returned
remove_record(recs, i) ==
    IF 0 <= i /\ i < Len(recs)
    THEN [records |-> ListPop(recs, i), ret |-> TRUE]
    ELSE [records |-> recs, ret |-> FALSE]

\* the line display_all prints for one pair of enumerate(self.records)
DisplayLine(pair) ==
    Fore_CYAN \o "[" \o ToString(pair[1]) \o "] " \o RecordStr(pair[2])

\* variant: the indices shown count from 1
display_all_from_one(recs) ==
    IF recs = <<>>
    THEN <<Fore_RED \o "No records available." \o Style_RESET_ALL>>
    ELSE <<Fore_GREEN \o "Displaying all records:" \o Style_RESET_ALL>>
         \o [i \in 1..Len(recs) |-> DisplayLine(<<i, recs[i]>>)]

\* DataStorage.display_all: the lines printed (the list is not written)
display_all(recs) ==
    IF recs = <<>>
    THEN <<Fore_RED \o "No records available." \o Style_RESET_ALL>>
    ELSE <<Fore_GREEN \o "Displaying all records:" \o Style_RESET_ALL>>
         \o [i \in 1..Len(recs) |-> DisplayLine(Enumerate(recs)[i])]

-----------------------------------------------------------------------------
(* Inputs                                                                  *)

\* random.randint(1, 100) returns a value in RandMin..RandMax
RandMin == 1
RandMax == 100
\* the draws of random.randint the model follows: both ends of the range
SimLatencies == {RandMin, RandMax}

\* source locations, as typed and as the str the program holds
SourceInputs == {<<"N", "Y", "C">>, <<"L", "A">>}
Sources == {Str(t) : t \in SourceInputs}

\* the records a caller can hold: a source, the largest latency, and a
\* test_time that is given or defaulted
RecordPool ==
    {LatencyTestRecord(s, RandMax, t, now) :
        s \in Sources, t \in Times \cup {None}, now \in Times}

\* text typed at a prompt, as a sequence of one-character strings
ChoiceInputs ==
    {<<"1">>, <<"2">>, <<"3">>, <<"4">>, <<"5">>, <<"6">>,
     <<"7">>, <<>>, <<"6", " ">>}
IdxInputs ==
    {<<"0">>, <<" ", "1">>, <<"2">>, <<"9">>, <<"-", "1">>,
     <<"a">>, <<>>, <<"1", ".", "0">>}
LatencyInputs == {<<"1", "0", "0">>, <<"1", "_", "_", "0">>, <<"m", "s">>, <<>>}

\* the indices a caller passes: every valid one, negative ones, len and beyond
IdxRange == (0 - MaxRecords - 1)..(MaxRecords + 1)

-----------------------------------------------------------------------------
(* The store under an arbitrary caller                                     *)

NoCall == [op |-> "none"]

Init ==
    /\ records = <<>>            \* DataStorage.__init__
    /\ prev = <<>>
    /\ call = NoCall
    /\ out = <<>>
    /\ pc = "caller"             \* main_menu is not running
    /\ typed = <<>>
    /\ choice = <<>>             \* the locals of main_menu are unbound
    /\ idx = None
    /\ source = ""

MenuLocalsUnchanged == UNCHANGED <<pc, typed, choice, idx, source>>

\* storage.add_record(record)
CallAddRecord ==
    /\ pc = "caller"
    /\ Len(records) < MaxRecords
    /\ \E record \in RecordPool :
          /\ records' = add_record(records, record)
          /\ call' = [op |-> "add_record", record |-> record]
    /\ prev' = records
    /\ out' = <<>>
    /\ MenuLocalsUnchanged

\* storage.get_record(i)
CallGetRecord ==
    /\ pc = "caller"
    /\ \E i \in IdxRange :
          call' = [op |-> "get_record", idx |-> i, ret |-> get_record(records, i)]
    /\ prev' = records
    /\ out' = <<>>
    /\ UNCHANGED records
    /\ MenuLocalsUnchanged

\* storage.modify_record(i, new_record)
CallModifyRecord ==
    /\ pc = "caller"
    /\ \E i \in IdxRange, new_record \in RecordPool :
          /\ records' = modify_record(records, i, new_record).records
          /\ call' = [op |-> "modify_record", idx |-> i, record |-> new_record,
                      ret |-> modify_record(records, i, new_record).ret]
    /\ prev' = records
    /\ out' = <<>>
    /\ MenuLocalsUnchanged

\* storage.remove_record(i)
CallRemoveRecord ==
    /\ pc = "caller"
    /\ \E i \in IdxRange :
          /\ records' = remove_record(records, i).records
          /\ call' = [op |-> "remove_record", idx |-> i,
                      ret |-> remove_record(records, i).ret]
    /\ prev' = records
    /\ out' = <<>>
    /\ MenuLocalsUnchanged

\* storage.display_all()
CallDisplayAll ==
    /\ pc = "caller"
    /\ out' = display_all(records)
    /\ call' = [op |-> "display_all"]
    /\ prev' = records
    /\ UNCHANGED records
    /\ MenuLocalsUnchanged

Next ==
    \/ CallAddRecord
    \/ CallGetRecord
    \/ CallModifyRecord
    \/ CallRemoveRecord
    \/ CallDisplayAll

Spec == Init /\ [][Next]_vars

-----------------------------------------------------------------------------
(* run_latency_simulation and main_menu                                    *)

\* run_latency_simulation(src): latency is the draw of random.randint and
\* now the value of datetime.now(); the record returned and the lines
\* printed (the one second sleep changes no state)
run_latency_simulation(src, latency, now) ==
    [record |-> LatencyTestRecord(src, latency, None, now),
     out |-> <<Fore_YELLOW \o "Simulating latency for " \o src \o "..."
                 \o Style_RESET_ALL,
               Fore_GREEN \o "Simulated latency: " \o ToString(latency)
                 \o " ms for " \o src \o Style_RESET_ALL>>]

\* print_stylish_header
print_stylish_header ==
    <<Fore_CYAN \o "========================================",
      "        " \o Fore_YELLOW \o "Network Latency Tester",
      Fore_CYAN \o "========================================" \o Style_RESET_ALL>>

ChoicePrompt == Fore_YELLOW \o "Choose an option (1-6): " \o Style_RESET_ALL
SourcePrompt == Fore_CYAN \o "Enter the source location: " \o Style_RESET_ALL
UpdateIdxPrompt ==
    Fore_CYAN \o "Enter the index of the record to update: " \o Style_RESET_ALL
LatencyPrompt == Fore_CYAN \o "Enter the new latency (ms): " \o Style_RESET_ALL
DeleteIdxPrompt ==
    Fore_CYAN \o "Enter the index of the record to delete: " \o Style_RESET_ALL

\* the top of the loop: the header, the six options and the choice prompt
MenuScreen ==
    print_stylish_header \o
    <<Fore_GREEN \o "1. " \o Fore_CYAN \o "Add new latency record",
      Fore_GREEN \o "2. " \o Fore_CYAN \o "Measure latency",
      Fore_GREEN \o "3. " \o Fore_CYAN \o "Update latency record",
      Fore_GREEN \o "4. " \o Fore_CYAN \o "Delete latency record",
      Fore_GREEN \o "5. " \o Fore_CYAN \o "Show all records",
      Fore_GREEN \o "6. " \o Fore_CYAN \o "Quit",
      Fore_CYAN \o "========================================" \o Style_RESET_ALL,
      ChoicePrompt>>

NoRecordsToUpdate ==
    Fore_RED \o "No records to update. Add a record first." \o Style_RESET_ALL
NoRecordsToDelete ==
    Fore_RED \o "No records to delete. Add a record first." \o Style_RESET_ALL
InvalidIndex == Fore_RED \o "Error: Invalid index." \o Style_RESET_ALL
InvalidUpdateInput ==
    Fore_RED \o "Error: Invalid input. Please enter numeric values for index and latency."
    \o Style_RESET_ALL
InvalidDeleteInput ==
    Fore_RED \o "Error: Invalid input. Please enter a numeric index." \o Style_RESET_ALL
InvalidChoice ==
    Fore_RED \o "Invalid choice. Please choose an option between 1 and 6."
    \o Style_RESET_ALL
Goodbye == Fore_CYAN \o "Exiting Network Latency Tester. Goodbye!" \o Style_RESET_ALL

\* main_menu up to its first input(): an empty store and the menu on screen
MenuInit ==
    /\ records = <<>>
    /\ prev = <<>>
    /\ call = NoCall
    /\ out = MenuScreen
    /\ pc = "choice"
    /\ typed = <<>>
    /\ choice = <<>>
    /\ idx = None
    /\ source = ""

\* the step ends at the top of the loop after printing lines
BackToMenu(lines) ==
    /\ out' = lines \o MenuScreen
    /\ pc' = "choice"

\* the step makes no DataStorage call
StoreUntouched ==
    /\ call' = NoCall
    /\ prev' = records
    /\ UNCHANGED records

\* choice '1': ask for the source of the record to add
ChooseAdd ==
    /\ pc = "choice"
    /\ Len(records) < MaxMenuRecords
    /\ \E c \in ChoiceInputs : c = <<"1">> /\ typed' = c /\ choice' = c
    /\ out' = <<SourcePrompt>>
    /\ pc' = "add_source"
    /\ StoreUntouched
    /\ UNCHANGED <<idx, source>>

\* choice '1', the source entered: simulate, add the record, report it
AddSource ==
    /\ pc = "add_source"
    /\ \E text \in SourceInputs, latency \in SimLatencies, now \in Times :
          LET sim == run_latency_simulation(Str(text), latency, now) IN
            /\ typed' = text
            /\ source' = Str(text)
            /\ records' = add_record(records, sim.record)
            /\ call' = [op |-> "add_record", record |-> sim.record]
            /\ BackToMenu(sim.out \o <<Fore_GREEN \o "Record added: "
                   \o RecordStr(sim.record) \o Style_RESET_ALL>>)
    /\ prev' = records
    /\ UNCHANGED <<choice, idx>>

\* choice '2': ask for the source to measure
ChooseMeasure ==
    /\ pc = "choice"
    /\ \E c \in ChoiceInputs : c = <<"2">> /\ typed' = c /\ choice' = c
    /\ out' = <<SourcePrompt>>
    /\ pc' = "measure_source"
    /\ StoreUntouched
    /\ UNCHANGED <<idx, source>>

\* variant: the measured record is stored as choice '1' stores it
MeasureSourceStores ==
    /\ pc = "measure_source"
    /\ Len(records) < MaxMenuRecords
    /\ \E text \in SourceInputs, latency \in SimLatencies, now \in Times :
          LET sim == run_latency_simulation(Str(text), latency, now) IN
            /\ typed' = text
            /\ source' = Str(text)
            /\ records' = add_record(records, sim.record)
            /\ call' = [op |-> "add_record", record |-> sim.record]
            /\ BackToMenu(sim.out \o <<Fore_GREEN \o "Latency measured: "
                   \o RecordStr(sim.record) \o Style_RESET_ALL>>)
    /\ prev' = records
    /\ UNCHANGED <<choice, idx>>

\* choice '2', the source entered: simulate and report, nothing is stored
MeasureSource ==
    /\ pc = "measure_source"
    /\ \E text \in SourceInputs, latency \in SimLatencies, now \in Times :
          LET sim == run_latency_simulation(Str(text), latency, now) IN
            /\ typed' = text
            /\ source' = Str(text)
            /\ BackToMenu(sim.out \o <<Fore_GREEN \o "Latency measured: "
                   \o RecordStr(sim.record) \o Style_RESET_ALL>>)
    /\ StoreUntouched
    /\ UNCHANGED <<choice, idx>>

\* choice '3': nothing to update on an empty store, else ask for the index
ChooseUpdate ==
    /\ pc = "choice"
    /\ \E c \in ChoiceInputs : c = <<"3">> /\ typed' = c /\ choice' = c
    /\ IF records = <<>>
       THEN BackToMenu(<<NoRecordsToUpdate>>)
       ELSE out' = <<UpdateIdxPrompt>> /\ pc' = "update_idx"
    /\ StoreUntouched
    /\ UNCHANGED <<idx, source>>

\* choice '3', the index entered: int() of it, ValueError back to the menu
UpdateIdx ==
    /\ pc = "update_idx"
    /\ \E text \in IdxInputs :
          /\ typed' = text
          /\ IF ParseInt(text).ok
             THEN /\ idx' = ParseInt(text).value
                  /\ out' = <<SourcePrompt>>
                  /\ pc' = "update_source"
             ELSE /\ BackToMenu(<<InvalidUpdateInput>>)
                  /\ UNCHANGED idx
    /\ StoreUntouched
    /\ UNCHANGED <<choice, source>>

\* choice '3', the source entered
UpdateSource ==
    /\ pc = "update_source"
    /\ \E text \in SourceInputs : typed' = text /\ source' = Str(text)
    /\ out' = <<LatencyPrompt>>
    /\ pc' = "update_latency"
    /\ StoreUntouched
    /\ UNCHANGED <<choice, idx>>

\* choice '3', the latency entered: int() of it, then modify_record
UpdateLatency ==
    /\ pc = "update_latency"
    /\ \E text \in LatencyInputs, now \in Times :
          /\ typed' = text
          /\ IF ParseInt(text).ok
             THEN LET new_record ==
                          LatencyTestRecord(source, ParseInt(text).value, None, now)
                      res == modify_record(records, idx, new_record)
                  IN  /\ records' = res.records
                      /\ call' = [op |-> "modify_record", idx |-> idx,
                                  record |-> new_record, ret |-> res.ret]
                      /\ BackToMenu(
                           IF res.ret
                           THEN <<Fore_GREEN \o "Record at index " \o ToString(idx)
                                    \o " updated successfully." \o Style_RESET_ALL>>
                           ELSE <<InvalidIndex>>)
             ELSE /\ BackToMenu(<<InvalidUpdateInput>>)
                  /\ call' = NoCall
                  /\ UNCHANGED records
    /\ prev' = records
    /\ UNCHANGED <<choice, idx, source>>

\* choice '4': nothing to delete on an empty store, else ask for the index
ChooseDelete ==
    /\ pc = "choice"
    /\ \E c \in ChoiceInputs : c = <<"4">> /\ typed' = c /\ choice' = c
    /\ IF records = <<>>
       THEN BackToMenu(<<NoRecordsToDelete>>)
       ELSE out' = <<DeleteIdxPrompt>> /\ pc' = "delete_idx"
    /\ StoreUntouched
    /\ UNCHANGED <<idx, source>>

\* variant: no except clause, the ValueError of int() ends main_menu
DeleteIdxUncaught ==
    /\ pc = "delete_idx"
    /\ \E text \in IdxInputs :
          /\ typed' = text
          /\ IF ParseInt(text).ok
             THEN LET i == ParseInt(text).value
                      res == remove_record(records, i)
                  IN  /\ idx' = i
                      /\ records' = res.records
                      /\ call' = [op |-> "remove_record", idx |-> i, ret |-> res.ret]
                      /\ BackToMenu(
                           IF res.ret
                           THEN <<Fore_GREEN \o "Record at index " \o ToString(i)
                                    \o " deleted successfully." \o Style_RESET_ALL>>
                           ELSE <<InvalidIndex>>)
             ELSE /\ out' = <<"ValueError">>
                  /\ pc' = "exit"
                  /\ call' = NoCall
                  /\ UNCHANGED <<records, idx>>
    /\ prev' = records
    /\ UNCHANGED <<choice, source>>

\* choice '4', the index entered: int() of it, then remove_record
DeleteIdx ==
    /\ pc = "delete_idx"
    /\ \E text \in IdxInputs :
          /\ typed' = text
          /\ IF ParseInt(text).ok
             THEN LET i == ParseInt(text).value
                      res == remove_record(records, i)
                  IN  /\ idx' = i
                      /\ records' = res.records
                      /\ call' = [op |-> "remove_record", idx |-> i, ret |-> res.ret]
                      /\ BackToMenu(
                           IF res.ret
                           THEN <<Fore_GREEN \o "Record at index " \o ToString(i)
                                    \o " deleted successfully." \o Style_RESET_ALL>>
                           ELSE <<InvalidIndex>>)
             ELSE /\ BackToMenu(<<InvalidDeleteInput>>)
                  /\ call' = NoCall
                  /\ UNCHANGED <<records, idx>>
    /\ prev' = records
    /\ UNCHANGED <<choice, source>>

\* choice '5': display_all
ChooseShow ==
    /\ pc = "choice"
    /\ \E c \in ChoiceInputs : c = <<"5">> /\ typed' = c /\ choice' = c
    /\ BackToMenu(<<Fore_CYAN \o "Displaying all records:" \o Style_RESET_ALL>>
                  \o display_all(records))
    /\ call' = [op |-> "display_all"]
    /\ prev' = records
    /\ UNCHANGED <<records, idx, source>>

\* choice '6': leave the loop
ChooseQuit ==
    /\ pc = "choice"
    /\ \E c \in ChoiceInputs : c = <<"6">> /\ typed' = c /\ choice' = c
    /\ out' = <<Goodbye>>
    /\ pc' = "exit"
    /\ StoreUntouched
    /\ UNCHANGED <<idx, source>>

\* any other choice: report it and show the menu again
ChooseOther ==
    /\ pc = "choice"
    /\ \E c \in ChoiceInputs :
          /\ c \notin {<<"1">>, <<"2">>, <<"3">>, <<"4">>, <<"5">>, <<"6">>}
          /\ typed' = c
          /\ choice' = c
    /\ BackToMenu(<<InvalidChoice>>)
    /\ StoreUntouched
    /\ UNCHANGED <<idx, source>>

MenuNext ==
    \/ ChooseAdd
    \/ AddSource
    \/ ChooseMeasure
    \/ MeasureSource
    \/ ChooseUpdate
    \/ UpdateIdx
    \/ UpdateSource
    \/ UpdateLatency
    \/ ChooseDelete
    \/ DeleteIdx
    \/ ChooseShow
    \/ ChooseQuit
    \/ ChooseOther

MenuSpec == MenuInit /\ [][MenuNext]_vars

-----------------------------------------------------------------------------
(* Properties of the store (checked under Spec)                            *)

\* the valid indices of a list
InRange(l, i) == 0 <= i /\ i < Len(l)

\* C1: after add_record(r), get_record(len-1) returns exactly r, and
\* get_record(i) of every earlier index i returns what it returned before
\* the add.
C1_AddThenGet ==
    call.op = "add_record" =>
        /\ PyEq(get_record(records, Len(records) - 1), PyRecord(call.record))
        /\ \A i \in 0..(Len(records) - 2) :
              /\ get_record(prev, i).kind = "LatencyTestRecord"
              /\ PyEq(get_record(records, i), get_record(prev, i))

\* an add onto a store of two different records
C1_Witness ==
    /\ call.op = "add_record"
    /\ Len(prev) = 2
    /\ prev[1] # prev[2]
    /\ call.record # prev[2]

\* C2: modify_record(i, r) on a valid i returns True, get_record(i) then
\* returns r, the length is unchanged and every other index keeps its record.
C2_ModifyValid ==
    (call.op = "modify_record" /\ InRange(prev, call.idx)) =>
        /\ call.ret = TRUE
        /\ PyEq(get_record(records, call.idx), PyRecord(call.record))
        /\ Len(records) = Len(prev)
        /\ \A j \in 0..(Len(prev) - 1) :
              j # call.idx => ListGetItem(records, j) = ListGetItem(prev, j)

\* a record in the middle of three is replaced by a different one
C2_Witness ==
    /\ call.op = "modify_record"
    /\ Len(prev) = 3
    /\ call.idx = 1
    /\ call.record # prev[2]

\* C3: remove_record(i) on a valid i returns True, shortens the store by
\* one, keeps the records below i and moves each record at j > i to j-1.
C3_RemoveValid ==
    (call.op = "remove_record" /\ InRange(prev, call.idx)) =>
        /\ call.ret = TRUE
        /\ Len(records) = Len(prev) - 1
        /\ \A j \in 0..(call.idx - 1) :
              ListGetItem(records, j) = ListGetItem(prev, j)
        /\ \A j \in (call.idx + 1)..(Len(prev) - 1) :
              ListGetItem(records, j - 1) = ListGetItem(prev, j)

\* the middle one of three records, different from the last, is removed
C3_Witness ==
    /\ call.op = "remove_record"
    /\ Len(prev) = 3
    /\ call.idx = 1
    /\ call.ret = TRUE
    /\ prev[2] # prev[3]

\* C4: get_record(idx) of an index outside 0 <= idx < len(records) returns a
\* value equal to the string "Record not found".
C4_NotFoundEqualsText ==
    (call.op = "get_record" /\ ~InRange(prev, call.idx)) =>
        PyEq(call.ret, PyStr("Record not found"))

\* C5: modify_record(idx, r) of an index outside the valid range (a negative
\* one included) returns False and leaves the whole record sequence as it was.
C5_ModifyInvalid ==
    (call.op = "modify_record" /\ ~InRange(prev, call.idx)) =>
        /\ call.ret = FALSE
        /\ records = prev

\* index -1 on a store whose last record is not the one passed
C5_Witness ==
    /\ call.op = "modify_record"
    /\ call.idx = 0 - 1
    /\ prev # <<>>
    /\ prev[Len(prev)] # call.record

\* C6: remove_record(idx) of an index outside the valid range (a negative
\* one, or any index on an empty store) returns False and leaves the whole
\* record sequence as it was.
C6_RemoveInvalid ==
    (call.op = "remove_record" /\ ~InRange(prev, call.idx)) =>
        /\ call.ret = FALSE
        /\ records = prev

\* a negative index on a store that holds records
C6_Witness ==
    /\ call.op = "remove_record"
    /\ call.idx < 0
    /\ 0 - Len(prev) <= call.idx

\* C7: add_record(r) always lengthens the store by exactly one and puts r at
\* the last index, with the earlier records in place, also when r equals a
\* stored record.
C7_AddAlwaysAppends ==
    call.op = "add_record" =>
        /\ Len(records) = Len(prev) + 1
        /\ records[Len(records)] = call.record
        /\ SubSeq(records, 1, Len(prev)) = prev

\* the record added equals one already stored
C7_Witness ==
    /\ call.op = "add_record"
    /\ \E i \in 1..Len(prev) : prev[i] = call.record

\* what display_all shows of a store
C8_Shown ==
    call.op = "display_all" =>
        /\ records = prev
        /\ IF records = <<>>
           THEN out = <<Fore_RED \o "No records available." \o Style_RESET_ALL>>
           ELSE /\ Len(out) = Len(records) + 1
                /\ out[1] = Fore_GREEN \o "Displaying all records:" \o Style_RESET_ALL
                /\ \A i \in 0..(Len(records) - 1) :
                      out[i + 2] = DisplayLine(<<i, ListGetItem(records, i)>>)

\* C8: display_all on a non-empty store prints one entry per record, indices
\* 0..len-1 in increasing order, each with the record at that index; on an
\* empty store it prints the 'No records available' line and no entry; the
\* store is unchanged, and a second call right after prints the same.
C8_DisplayAll ==
    /\ []C8_Shown
    /\ [][(call.op = "display_all" /\ call'.op = "display_all")
             => (out' = out /\ records' = records)]_vars

\* three records, not all equal, are displayed
C8_Witness ==
    /\ call.op = "display_all"
    /\ Len(records) = 3
    /\ records[1] # records[3]

-----------------------------------------------------------------------------
(* Properties of main_menu (checked under MenuSpec)                        *)

\* the records a simulation of the source src can return
RecordPoolOf(src) ==
    {LatencyTestRecord(src, l, None, now) : l \in RandMin..RandMax, now \in Times}

MenuChoices == {<<"1">>, <<"2">>, <<"3">>, <<"4">>, <<"5">>, <<"6">>}

\* the step reports line and ends at the choice prompt, the store as it was
ReportedBack(line) ==
    /\ pc' = "choice"
    /\ out'[1] = line
    /\ out'[Len(out')] = ChoicePrompt
    /\ records' = records

\* C9: a choice other than '1'..'6', a non-numeric index or latency, and a
\* numeric index out of range are each reported and lead back to the menu
\* prompt with the store unchanged; the loop ends only on the choice '6'.
C9_ErrorsReturnToMenu ==
    [][ /\ (pc = "choice" /\ typed' \notin MenuChoices)
            => ReportedBack(InvalidChoice)
        /\ (pc = "update_idx" /\ ~ParseInt(typed').ok)
            => ReportedBack(InvalidUpdateInput)
        /\ (pc = "update_idx" /\ ParseInt(typed').ok
               /\ ~InRange(records, ParseInt(typed').value))
            => (pc' = "update_source" /\ idx' = ParseInt(typed').value
                  /\ records' = records)
        /\ (pc = "update_source" /\ ~InRange(records, idx))
            => (pc' = "update_latency" /\ idx' = idx /\ records' = records)
        /\ (pc = "update_latency" /\ ~ParseInt(typed').ok)
            => ReportedBack(InvalidUpdateInput)
        /\ (pc = "update_latency" /\ ParseInt(typed').ok /\ ~InRange(records, idx))
            => ReportedBack(InvalidIndex)
        /\ (pc = "delete_idx" /\ ~ParseInt(typed').ok)
            => ReportedBack(InvalidDeleteInput)
        /\ (pc = "delete_idx" /\ ParseInt(typed').ok
               /\ ~InRange(records, ParseInt(typed').value))
            => ReportedBack(InvalidIndex)
        /\ (pc' = "exit") => (pc = "choice" /\ typed' = <<"6">>)
      ]_vars

\* an out-of-range index has just been reported for a store with records
C9_Witness ==
    /\ pc = "choice"
    /\ out[1] = InvalidIndex
    /\ records # <<>>
    /\ choice = <<"4">>

\* C10: only the choices '1', '3' and '4' change the store; '2' produces a
\* record and never stores it; '5' leaves the store as it was; '3' and '4'
\* on an empty store go back to the menu without asking for an index and
\* without calling modify_record or remove_record.
C10_OnlyAddUpdateDeleteWrite ==
    [][ /\ (records' # records) => (choice' \in {<<"1">>, <<"3">>, <<"4">>})
        /\ (pc = "measure_source")
            => /\ records' = records
               /\ call'.op = "none"
               /\ \E r \in RecordPoolOf(source') :
                     out'[3] = Fore_GREEN \o "Latency measured: " \o RecordStr(r)
                                 \o Style_RESET_ALL
        /\ (pc = "choice" /\ typed' \in {<<"2">>, <<"5">>})
            => records' = records
        /\ (pc = "choice" /\ typed' \in {<<"3">>, <<"4">>} /\ records = <<>>)
            => /\ pc' = "choice"
               /\ records' = records
               /\ call'.op \notin {"modify_record", "remove_record"}
               /\ \A i \in 1..Len(out') :
                     out'[i] \notin {UpdateIdxPrompt, DeleteIdxPrompt}
      ]_vars

\* a latency has just been measured while the store holds a record
C10_Witness ==
    /\ pc = "choice"
    /\ choice = <<"2">>
    /\ call.op = "none"
    /\ records # <<>>
    /\ Len(out) > Len(MenuScreen)

====
